---- MODULE Spec2Model ----
(***************************************************************************)
(* The plugin build pipeline of grafana-toolkit (tasks/plugin.build.ts,    *)
(* kept as src/unnamed/part_000): the six staged tasks run by              *)
(* pluginBuildRunner, the two concurrent copyIfNonExistent operations of   *)
(* prepare, the per-file promise chains of prettierCheckPlugin and the     *)
(* aggregation of lintPlugin.                                              *)
(*                                                                         *)
(* Scheduling is Node's: one handler runs to completion at a time.  An     *)
(* action is one I/O completion together with every continuation that the  *)
(* completion resumes in the same turn (promise callbacks, Promise.all,    *)
(* the resumed await and the synchronous start of the next stage).         *)
(***************************************************************************)
EXTENDS Naturals, Sequences, FiniteSets

\* ------------------------------------------------------------------ bounds
\* Number of source files that discovery may return.
MaxFiles == 2
\* Number of times the prepare task is called in a row.
MaxPrepareCalls == 2
\* Number of rule failures the linter reports for one file.
MaxRuleFailures == 2

\* --------------------------------------------------------------- constants
\* newContents.length > 10
SanityThreshold == 10

Files == 1..MaxFiles

\* Stage numbers, in the order pluginBuildRunner awaits them.
Clean == 1
Bootstrap == 2
FormatCheck == 3
LintCheck == 4
Test == 5
Bundle == 6
Stages == 1..6

VARIABLES
  entry,        \* the exported function that was called ("" before the call)
  coverage,     \* PluginBuildOptions.coverage
  invoked,      \* [Stages -> Nat]: how many times each staged task was invoked
  stageArgs,    \* [Stages -> record]: the options of the last invocation
  outcome,      \* [Stages -> Outcome]: how the work of the last invocation settled
  result,       \* the promise returned by pluginBuildRunner
  cfgFiles,     \* configuration files on disk: path -> content or "Absent"
  cfgInit,      \* cfgFiles when the program started
  copyOp,       \* [1..2 -> record]: the two copyIfNonExistent promises of prepare
  destAfter,    \* [1..2 -> Seq(content)]: destination content after each settled call
  styleSources, \* what getStylesSources() resolves to
  tsSources,    \* what getTypescriptSources() resolves to
  srcFiles,     \* source files on disk: file -> content
  srcInit,      \* srcFiles when the program started
  fixOut,       \* what prettier.format answers for each file
  ioFault,      \* what readFile and writeFile answer for each file
  fmtPhase,     \* prettierCheckPlugin: "idle", "loading" or "dispatched"
  item,         \* [1..Len(paths) -> record]: the per-file promise chains
  printed,      \* the failing paths prettierCheckPlugin logged
  linterOut,    \* what the linter answers for each file: Seq of severities
  lintReport    \* the failures lintPlugin's aggregation logged, and its error

pipeVars == <<entry, coverage, invoked, stageArgs, outcome, result>>
prepVars == <<cfgFiles, cfgInit, copyOp, destAfter>>
fmtVars  == <<styleSources, tsSources, srcFiles, srcInit, fixOut, ioFault, fmtPhase, item,
              printed>>
lintVars == <<linterOut, lintReport>>
vars == <<pipeVars, prepVars, fmtVars, lintVars>>

\* ---------------------------------------------------------------- outcomes
\* An error is its message and the operation or file it came from (0: none).
NoErr == [msg |-> "", at |-> 0]
Err(m, a) == [msg |-> m, at |-> a]

NotRun  == [tag |-> "none", err |-> NoErr]
Pending == [tag |-> "pending", err |-> NoErr]
Success == [tag |-> "Success", err |-> NoErr]
Failure(e) == [tag |-> "Failure", err |-> e]

Settled(o) == o.tag \in {"Success", "Failure"}

NoArgs == [none |-> TRUE]

\* ------------------------------------------------------------ Staged Task
\* useSpinner(label, fn): the decorated task settles as fn settles, with fn's
\* value or with fn's error, and reports on the way.
useSpinner(o) == o

\* ------------------------------------------------------- pluginBuildRunner
\* The options each stage is called with.
StageArgs_swapped(k, cov) ==
  CASE k = FormatCheck -> [fix |-> TRUE]
    [] k = LintCheck   -> [fix |-> FALSE]
    [] k = Test        -> [updateSnapshot |-> FALSE, coverage |-> cov, watch |-> FALSE]
    [] k = Bundle      -> [watch |-> FALSE, production |-> TRUE]
    [] OTHER           -> NoArgs

StageArgs_leak(k, cov) ==
  CASE k = FormatCheck -> [fix |-> FALSE]
    [] k = LintCheck   -> [fix |-> FALSE]
    [] k = Test        -> [updateSnapshot |-> FALSE, coverage |-> cov, watch |-> FALSE]
    [] k = Bundle      -> [watch |-> FALSE, production |-> ~cov]
    [] OTHER           -> NoArgs

StageArgs(k, cov) ==
  CASE k = FormatCheck -> [fix |-> FALSE]
    [] k = LintCheck   -> [fix |-> FALSE]
    [] k = Test        -> [updateSnapshot |-> FALSE, coverage |-> cov, watch |-> FALSE]
    [] k = Bundle      -> [watch |-> FALSE, production |-> TRUE]
    [] OTHER           -> NoArgs

\* The task state as one record, so that a continuation is a function of it.
Task == [invoked |-> invoked, stageArgs |-> stageArgs, outcome |-> outcome, result |-> result]

SetTask(t) ==
  /\ invoked' = t.invoked
  /\ stageArgs' = t.stageArgs
  /\ outcome' = t.outcome
  /\ result' = t.result

\* Calling staged task k with the given options: its promise is pending.
Call(t, k, args) ==
  [t EXCEPT !.invoked[k] = @ + 1, !.stageArgs[k] = args, !.outcome[k] = Pending]

\* ---------------------------------------------------------------- lintPlugin
\* The members of fs.promises, which the module imports under the name fs.
fsPromises == {"access", "copyFile", "readFile", "writeFile"}

\* linter.getResult() for one file: its failures in in-file order, and the counts.
RuleFailures(f, sev) == [i \in 1..Len(sev) |-> [file |-> f, idx |-> i, severity |-> sev[i]]]

getResult(f, sev) ==
  [ fileName     |-> f,
    failures     |-> RuleFailures(f, sev),
    errorCount   |-> Cardinality({i \in 1..Len(sev) : sev[i] = "error"}),
    warningCount |-> Cardinality({i \in 1..Len(sev) : sev[i] = "warning"}) ]

\* result => result.errorCount > 0 || result.warningCount > 0
Retained(r) == r.errorCount > 0 \/ r.warningCount > 0

\* sourcesToLint.map(...).filter(...)
lintResults(sources, answers) ==
  SelectSeq([i \in 1..Len(sources) |-> getResult(sources[i], answers[sources[i]])], Retained)

\* (failures, result) => [...failures, ...result.failures]
Concat_prepend(acc, more) == more \o acc

Concat(acc, more) == acc \o more

\* lintResults.reduce(..., [])
RECURSIVE Reduce(_, _)
Reduce(results, acc) ==
  IF results = <<>> THEN acc
  ELSE Reduce(Tail(results), Concat(acc, Head(results).failures))

\* What the task leaves behind: the files the map produced a result for,
\* the failures it logged and the two numbers of its error.
NoReport == [linted |-> <<>>, failures |-> <<>>, count |-> 0, files |-> 0]

\* sourcesToLint.map(fileName => ... linter.getResult())
Linted(sources, answers) ==
  [i \in 1..Len(sources) |-> getResult(sources[i], answers[sources[i]]).fileName]

\* From the filter on: what is logged and what is thrown.
LintAggregation(sources, answers) ==
  LET kept == lintResults(sources, answers)
      failures == Reduce(kept, <<>>)
  IN  IF Len(kept) > 0
      THEN [ outcome |-> Failure(Err("linting errors found", 0)),
             report  |-> [linted |-> Linted(sources, answers), failures |-> failures,
                          count |-> Len(failures), files |-> Len(kept)] ]
      ELSE [ outcome |-> Success,
             report  |-> [NoReport EXCEPT !.linted = Linted(sources, answers)] ]

\* The whole task.  It runs synchronously: fs.existsSync is looked up on
\* fs.promises, where it is not defined, and calling it throws.
lintPlugin(sources, answers) ==
  IF "existsSync" \notin fsPromises
  THEN [ outcome |-> Failure(Err("TypeError: fs.existsSync is not a function", 0)),
         report  |-> NoReport ]
  ELSE LintAggregation(sources, answers)

\* ------------------------------------------------------- pluginBuildRunner
\* `await stage(...)` throws when the stage's promise is rejected.
Rejects_never(o) == FALSE

Rejects(o) == o.tag = "Failure"

\* The continuation of pluginBuildRunner when the awaited stage k settles as o:
\* rethrow, or call the next stage; lintPlugin settles within its own call.
RECURSIVE pluginBuildRunner(_, _, _)
pluginBuildRunner(t, k, o) ==
  LET t1 == [t EXCEPT !.outcome[k] = o]
  IN  IF Rejects(useSpinner(o)) THEN [t1 EXCEPT !.result = useSpinner(o)]
      ELSE IF k = Bundle THEN [t1 EXCEPT !.result = Success]
      ELSE LET t2 == Call(t1, k + 1, StageArgs(k + 1, coverage))
           IN  IF k + 1 = LintCheck
               THEN pluginBuildRunner(t2, LintCheck, lintPlugin(tsSources, linterOut).outcome)
               ELSE t2

\* The work of stage k settles as o, and the caller of its task resumes.
Settle(t, k, o) ==
  IF entry = "pluginBuildRunner" THEN pluginBuildRunner(t, k, o)
  ELSE [t EXCEPT !.outcome[k] = o]

\* Whether the step leading to task state t called stage k.
Dispatched(t, k) == t.invoked[k] > invoked[k]

\* ------------------------------------------------------------------ prepare
CwdTsconfig   == "cwd/tsconfig.json"
CfgTsconfig   == "config/tsconfig.plugin.local.json"
CwdPrettierrc == "cwd/.prettierrc.js"
CfgPrettierrc == "config/prettier.plugin.rc.js"

CfgPrettierConfig == "config/prettier.plugin.config.json"

CfgPaths == {CwdTsconfig, CfgTsconfig, CwdPrettierrc, CfgPrettierrc, CfgPrettierConfig}
ProjectRootFiles == {CwdTsconfig, CwdPrettierrc}
BundledFiles == {CfgTsconfig, CfgPrettierrc, CfgPrettierConfig}

\* The (srcPath, destPath) arguments of the two copyIfNonExistent calls.
PrepareCopies ==
  << [src |-> CwdTsconfig,   dest |-> CfgTsconfig],
     [src |-> CwdPrettierrc, dest |-> CfgPrettierrc] >>

\* fs.copyFile(src, dest, COPYFILE_EXCL) completing on the files as they are:
\* the source is opened first, then the destination is created exclusively.
copyFile_overwrite(files, src, dest) ==
  IF files[src] = "Absent" THEN [files |-> files, err |-> "ENOENT"]
  ELSE [files |-> [files EXCEPT ![dest] = files[src]], err |-> "none"]

copyFile(files, src, dest) ==
  IF files[src] = "Absent" THEN [files |-> files, err |-> "ENOENT"]
  ELSE IF files[dest] # "Absent" THEN [files |-> files, err |-> "EEXIST"]
  ELSE [files |-> [files EXCEPT ![dest] = files[src]], err |-> "none"]

\* .catch(error => { if (error.code !== 'EEXIST') throw error; })
Rethrown(code) == code \notin {"none", "EEXIST"}

copyIfNonExistent(files, src, dest) ==
  LET r == copyFile(files, src, dest)
  IN  [files |-> r.files, err |-> r.err, rejected |-> Rethrown(r.err)]

IdleOp == [st |-> "idle", err |-> "none"]
InFlight == [st |-> "inflight", err |-> "none"]

\* Promise.all over the two operations, as seen when one of them settles:
\* rejected with the first rejection, fulfilled when all are fulfilled.
PromiseAll_waitsForAll(ops, i) ==
  IF \E j \in DOMAIN ops : ops[j].st = "inflight" THEN Pending
  ELSE IF \E j \in DOMAIN ops : ops[j].st = "rejected"
       THEN Failure(Err(ops[i].err, i))
       ELSE Success

PromiseAll(ops, i) ==
  IF ops[i].st = "rejected" THEN Failure(Err(ops[i].err, i))
  ELSE IF \A j \in DOMAIN ops : ops[j].st = "resolved" THEN Success
  ELSE Pending

\* The staged task being called starts its two copies.
StartPrepare(t) ==
  copyOp' = IF Dispatched(t, Bootstrap) THEN [i \in 1..2 |-> InFlight] ELSE copyOp

\* prepare() called on its own.
prepareCall ==
  /\ entry \in {"", "prepare"}
  /\ invoked[Bootstrap] < MaxPrepareCalls
  /\ outcome[Bootstrap].tag # "pending"
  /\ \A i \in 1..2 : copyOp[i].st # "inflight"
  /\ entry' = "prepare"
  /\ LET t == Call(Task, Bootstrap, NoArgs)
     IN  SetTask(t) /\ StartPrepare(t)
  /\ UNCHANGED <<coverage, cfgFiles, cfgInit, destAfter, fmtVars, lintVars>>

\* ------------------------------------------------------ prettierCheckPlugin
\* File contents: their length and whether prettier.check accepts them.
Conforming == [len |-> 40, ok |-> TRUE]
Violating  == [len |-> 40, ok |-> FALSE]
Truncated  == [len |-> 0, ok |-> FALSE]

\* What prettier.format may answer: nothing, or text at and above the threshold.
NoAnswer == [len |-> 0, ok |-> TRUE]

FixOutputs == { [len |-> n, ok |-> TRUE] : n \in {0, SanityThreshold, SanityThreshold + 1} }

\* results.flat()
paths == styleSources \o tsSources

\* async ({ fix }) => ...: the option the task was called with.
Fix_ignored == TRUE

Fix == stageArgs[FormatCheck].fix

\* prettier.check(contents, config)
check(contents) == contents.ok

\* The first .then: the reformatted text, or undefined.
Undefined == [defined |-> FALSE, text |-> Truncated]

Formatted(fix, contents, answer) ==
  IF fix /\ ~check(contents) THEN [defined |-> TRUE, text |-> answer] ELSE Undefined

\* The second .then: fix && newContents && newContents.length > 10
ShouldWrite_atThreshold(fix, nc) ==
  fix /\ nc.defined /\ nc.text.len > 0 /\ nc.text.len >= SanityThreshold

ShouldWrite(fix, nc) ==
  fix /\ nc.defined /\ nc.text.len > 0 /\ nc.text.len > SanityThreshold

\* The value of the second .then when nothing is written: false with fix,
\* false without.
Unwritten(fix) == IF fix THEN FALSE ELSE FALSE

\* A chain that has not settled has no result; the third .then makes it:
\* success => ({ path, success })
Reading == [st |-> "reading", path |-> 0, success |-> FALSE, err |-> NoErr]

Result(path, success) == [st |-> "done", path |-> path, success |-> success, err |-> NoErr]

\* writeFile(path, newContents).then(() => true).catch(error => false)
Written_uncaught(path, w) ==
  IF w = "ok" THEN Result(path, TRUE)
  ELSE [Reading EXCEPT !.st = "rejected", !.err = Err(w, path)]

Written(path, w) == Result(path, w = "ok")

\* (await Promise.all(promises)).filter(({ success }) => !success)
FailedIndexes_all(items) == {i \in DOMAIN items : TRUE}

FailedIndexes(items) == {i \in DOMAIN items : ~items[i].success}

RECURSIVE PathsAt(_, _, _)
PathsAt(ps, keep, i) ==
  IF i > Len(ps) THEN <<>>
  ELSE (IF i \in keep THEN <<ps[i]>> ELSE <<>>) \o PathsAt(ps, keep, i + 1)

failures_reversed(items) ==
  LET q == PathsAt(paths, FailedIndexes(items), 1)
  IN  [n \in 1..Len(q) |-> q[Len(q) + 1 - n]]

failures(items) == PathsAt(paths, FailedIndexes(items), 1)

\* Promise.all over the per-file chains and the lines after the await, as
\* seen when chain i settles (i = 0: there is no chain at all).
Aggregate_eager(items, i) ==
  IF i # 0 /\ items[i].st = "rejected" THEN Failure(items[i].err)
  ELSE IF Len(failures(items)) # 0 THEN Failure(Err("Prettier failed", 0))
  ELSE IF \E j \in DOMAIN items : items[j].st # "done" THEN Pending
  ELSE Success

Aggregate(items, i) ==
  IF i # 0 /\ items[i].st = "rejected" THEN Failure(items[i].err)
  ELSE IF \E j \in DOMAIN items : items[j].st # "done" THEN Pending
  ELSE IF Len(failures(items)) # 0 THEN Failure(Err("Prettier failed", 0))
  ELSE Success

\* The stage's promise after chain i settled, the runner resumed with it.
FormatSettles(items, i) ==
  LET o == Aggregate(items, i)
      t == IF outcome[FormatCheck].tag = "pending" /\ Settled(o)
           THEN Settle(Task, FormatCheck, o) ELSE Task
  IN  /\ SetTask(t)
      /\ printed' = IF outcome[FormatCheck].tag = "pending" /\ o = Failure(Err("Prettier failed", 0))
                    THEN failures(items) ELSE printed
      /\ lintReport' = IF Dispatched(t, LintCheck)
                       THEN lintPlugin(tsSources, linterOut).report ELSE lintReport

\* prettierCheckPlugin({ fix }) called on its own.
prettierCheckPluginCall ==
  /\ entry = ""
  /\ entry' = "prettierCheckPlugin"
  /\ \E fx \in BOOLEAN : SetTask(Call(Task, FormatCheck, [fix |-> fx]))
  /\ fmtPhase' = "loading"
  /\ UNCHANGED <<coverage, prepVars, styleSources, tsSources, srcFiles, srcInit,
                 fixOut, ioFault, item, printed, lintVars>>

\* The read of the configuration and both globs have settled: the read
\* failed, or the configuration is parsed and one readFile per path is started.
FormatLoaded ==
  /\ fmtPhase = "loading"
  /\ IF cfgFiles[CfgPrettierConfig] = "Absent"
     THEN /\ fmtPhase' = "failed"
          /\ item' = item
          /\ LET t == Settle(Task, FormatCheck, Failure(Err("ENOENT", 0)))
             IN  SetTask(t) /\ UNCHANGED <<printed, lintReport>>
     ELSE /\ fmtPhase' = "dispatched"
          /\ item' = [i \in 1..Len(paths) |-> Reading]
          /\ FormatSettles(item', 0)
  /\ UNCHANGED <<entry, coverage, prepVars, styleSources, tsSources, srcFiles,
                 srcInit, fixOut, ioFault, linterOut>>

\* readFile(path) of chain i completes and the chain runs up to its write.
ReadSettle(i) ==
  /\ fmtPhase = "dispatched"
  /\ i \in DOMAIN item
  /\ item[i].st = "reading"
  /\ LET f == paths[i]
           io == ioFault[f].read
           nc == Formatted(Fix, srcFiles[f], fixOut[f])
       IN  /\ item' = [item EXCEPT ![i] =
                 IF io # "none" THEN [Reading EXCEPT !.st = "rejected", !.err = Err(io, f)]
                 ELSE IF ShouldWrite(Fix, nc) THEN [Reading EXCEPT !.st = "writing"]
                 ELSE Result(f, Unwritten(Fix))]
           /\ FormatSettles(item', i)
  /\ UNCHANGED <<entry, coverage, prepVars, styleSources, tsSources, srcFiles,
                 srcInit, fixOut, ioFault, fmtPhase, linterOut>>

\* writeFile(path, newContents) of chain i completes: true, or false when it
\* failed (EACCES: before touching the file; ENOSPC: after truncating it).
WriteSettle(i) ==
  /\ fmtPhase = "dispatched"
  /\ i \in DOMAIN item
  /\ item[i].st = "writing"
  /\ LET f == paths[i]
           w == ioFault[f].write
       IN  /\ srcFiles' = [srcFiles EXCEPT ![f] =
                 CASE w = "ok" -> fixOut[f]
                   [] w = "ENOSPC" -> Truncated
                   [] OTHER -> @]
           /\ item' = [item EXCEPT ![i] = Written(f, w)]
           /\ FormatSettles(item', i)
  /\ UNCHANGED <<entry, coverage, prepVars, styleSources, tsSources,
                 srcInit, fixOut, ioFault, fmtPhase, linterOut>>

\* ------------------------------------------------------- prepare, continued
\* One copyIfNonExistent settles; Promise.all, prepare and its caller follow.
CopySettle(i) ==
  /\ copyOp[i].st = "inflight"
  /\ LET c == PrepareCopies[i]
           r == copyIfNonExistent(cfgFiles, c.src, c.dest)
           ops == [copyOp EXCEPT ![i] =
                     [st |-> IF r.rejected THEN "rejected" ELSE "resolved", err |-> r.err]]
           o == PromiseAll(ops, i)
           t == IF outcome[Bootstrap].tag = "pending" /\ Settled(o)
                THEN Settle(Task, Bootstrap, o) ELSE Task
       IN  /\ cfgFiles' = r.files
           /\ copyOp' = ops
           /\ destAfter' = [destAfter EXCEPT ![i] = Append(@, r.files[c.dest])]
           /\ SetTask(t)
           /\ fmtPhase' = IF Dispatched(t, FormatCheck) THEN "loading" ELSE fmtPhase
  /\ UNCHANGED <<entry, coverage, cfgInit, styleSources, tsSources, srcFiles,
                 srcInit, fixOut, ioFault, item, printed, lintVars>>

\* ------------------------------------------------- clean, testPlugin, bundle
\* An external collaborator settles: success or failure is all that shows.
ExternalSettle(k) ==
  /\ k \in {Clean, Test, Bundle}
  /\ outcome[k].tag = "pending"
  /\ \E o \in {Success, Failure(Err("exited with an error", k))} :
       LET t == Settle(Task, k, o)
       IN  SetTask(t) /\ StartPrepare(t)
  /\ UNCHANGED <<entry, coverage, cfgFiles, cfgInit, destAfter, fmtVars, lintVars>>

\* pluginBuildRunner({ coverage }) is called: it calls clean() and awaits it.
pluginBuildRunnerCall ==
  /\ entry = ""
  /\ entry' = "pluginBuildRunner"
  /\ SetTask(Call([Task EXCEPT !.result = Pending], Clean, StageArgs(Clean, coverage)))
  /\ UNCHANGED <<coverage, prepVars, fmtVars, lintVars>>

\* lintPlugin's aggregation applied to the linter's answers.
LintAggregate ==
  /\ entry = ""
  /\ entry' = "lintResults"
  /\ LET r == LintAggregation(tsSources, linterOut)
     IN  /\ lintReport' = r.report
         /\ SetTask([Call(Task, LintCheck, [fix |-> FALSE]) EXCEPT !.outcome[LintCheck] = r.outcome])
  /\ UNCHANGED <<coverage, prepVars, fmtVars, linterOut>>

\* lintPlugin({ fix }) called on its own: it settles within the call.
lintPluginCall ==
  /\ entry = ""
  /\ entry' = "lintPlugin"
  /\ \E fx \in BOOLEAN :
       LET r == lintPlugin(tsSources, linterOut)
       IN  /\ lintReport' = r.report
           /\ SetTask([Call(Task, LintCheck, [fix |-> fx]) EXCEPT !.outcome[LintCheck] = r.outcome])
  /\ UNCHANGED <<coverage, prepVars, fmtVars, linterOut>>

\* One of pluginBuildRunner's six calls, taken by itself: the options it
\* passes for the run's coverage.
StageCall(k) ==
  /\ entry \in {"", "StageArgs"}
  /\ entry' = "StageArgs"
  /\ invoked[k] = 0
  /\ SetTask(Call(Task, k, StageArgs(k, coverage)))
  /\ UNCHANGED <<coverage, prepVars, fmtVars, lintVars>>

\* ------------------------------------------------------------ initial states
\* Sequences without repetition over S: what a glob may answer.
DistinctSeqs(S) ==
  { q \in UNION { [1..n -> S] : n \in 0..Cardinality(S) } :
      \A i, j \in DOMAIN q : i # j => q[i] # q[j] }

Range(q) == { q[i] : i \in DOMAIN q }

\* The project's own files are there or not; the bundled ones are there as
\* shipped, edited, or missing.
CfgStates(templates, configs) ==
  { c \in [CfgPaths -> {"Absent", "project", "bundled", "edited"}] :
      /\ \A p \in ProjectRootFiles : c[p] \in {"Absent", "project"}
      /\ \A p \in BundledFiles \ {CfgPrettierConfig} : c[p] \in templates
      /\ c[CfgPrettierConfig] \in configs }

CfgUsual == [p \in CfgPaths |-> IF p \in ProjectRootFiles THEN "project" ELSE "bundled"]

\* What a discovered file may be: unreadable; conforming; or violating, with
\* each answer of the formatter and, for an answer that passes the threshold,
\* each answer of the write.
NoFault == [read |-> "none", write |-> "ok"]

Plain == [content |-> Conforming, answer |-> NoAnswer, fault |-> NoFault]

Profiles(answers) ==
  { Plain, [content |-> Violating, answer |-> NoAnswer,
            fault |-> [read |-> "EACCES", write |-> "ok"]] }
  \cup { [content |-> Violating, answer |-> a, fault |-> [read |-> "none", write |-> w]] :
           a \in answers, w \in {"ok", "EACCES", "ENOSPC"} }

SeveritySeqs == UNION { [1..n -> {"error", "warning"}] : n \in 0..MaxRuleFailures }

InitTask ==
  /\ entry = ""
  /\ invoked = [k \in Stages |-> 0]
  /\ stageArgs = [k \in Stages |-> NoArgs]
  /\ outcome = [k \in Stages |-> NotRun]
  /\ result = NotRun

InitPrepare(states) ==
  /\ cfgFiles \in states
  /\ cfgInit = cfgFiles
  /\ copyOp = [i \in 1..2 |-> IdleOp]
  /\ destAfter = [i \in 1..2 |-> <<>>]

\* The two globs answer disjoint lists; files no glob finds do not matter.
InitSources(styles, scripts, profiles) ==
  /\ styleSources \in styles
  /\ tsSources \in { q \in scripts : Range(q) \cap Range(styleSources) = {} }
  /\ \E pr \in [Files -> profiles] :
       /\ \A f \in Files :
            \/ f \notin Range(paths) /\ pr[f] = Plain
            \/ /\ f \in Range(paths)
               /\ pr[f].fault.write = "ok" \/ pr[f].answer.len > SanityThreshold
       /\ srcFiles = [f \in Files |-> pr[f].content]
       /\ fixOut = [f \in Files |-> pr[f].answer]
       /\ ioFault = [f \in Files |-> pr[f].fault]
  /\ srcInit = srcFiles
  /\ fmtPhase = "idle"
  /\ item = <<>>
  /\ printed = <<>>

InitLint(answers) ==
  /\ linterOut \in { a \in [Files -> answers] :
                       \A f \in Files \ Range(tsSources) : a[f] = <<>> }
  /\ lintReport = NoReport

\* ------------------------------------------------------------ specifications
\* A run of pluginBuildRunner.
Init ==
  /\ InitTask
  /\ coverage \in BOOLEAN
  /\ InitPrepare(CfgStates({"Absent", "bundled"}, {"Absent", "bundled"}))
  /\ InitSources(DistinctSeqs(Files), DistinctSeqs(Files), Profiles({NoAnswer}))
  /\ InitLint({<<>>})

Next ==
  \/ pluginBuildRunnerCall
  \/ \E k \in Stages : ExternalSettle(k)
  \/ \E i \in 1..2 : CopySettle(i)
  \/ FormatLoaded
  \/ \E i \in Files : ReadSettle(i)

Spec == Init /\ [][Next]_vars

\* prepare() called on its own, MaxPrepareCalls times in a row.
InitBootstrap ==
  /\ InitTask
  /\ coverage = FALSE
  /\ InitPrepare(CfgStates({"Absent", "bundled", "edited"}, {"bundled"}))
  /\ InitSources({<<>>}, {<<>>}, {Plain})
  /\ InitLint({<<>>})

NextBootstrap ==
  \/ prepareCall
  \/ \E i \in 1..2 : CopySettle(i)

SpecBootstrap == InitBootstrap /\ [][NextBootstrap]_vars

\* prettierCheckPlugin({ fix }) called on its own, with and without fix.
InitFormat ==
  /\ InitTask
  /\ coverage = FALSE
  /\ InitPrepare({ c \in CfgStates({"bundled"}, {"Absent", "bundled"}) :
                     \A p \in ProjectRootFiles : c[p] = "project" })
  /\ InitSources(DistinctSeqs(Files), DistinctSeqs(Files), Profiles(FixOutputs))
  /\ InitLint({<<>>})

NextFormat ==
  \/ prettierCheckPluginCall
  \/ FormatLoaded
  \/ \E i \in Files : ReadSettle(i)
  \/ \E i \in Files : WriteSettle(i)

SpecFormat == InitFormat /\ [][NextFormat]_vars

\* lintPlugin's aggregation over every answer of the linter.
InitLintResults ==
  /\ InitTask
  /\ coverage = FALSE
  /\ InitPrepare({CfgUsual})
  /\ InitSources({<<>>}, DistinctSeqs(Files), {Plain})
  /\ InitLint(SeveritySeqs)

NextLintResults == LintAggregate

SpecLintResults == InitLintResults /\ [][NextLintResults]_vars

\* lintPlugin({ fix }) called on its own, over every answer of the linter.
NextLint == lintPluginCall

SpecLint == InitLintResults /\ [][NextLint]_vars

\* Either check called on its own, over the same discovered files.
NextChecks == NextFormat \/ NextLint

SpecChecks == InitFormat /\ [][NextChecks]_vars

\* The options of pluginBuildRunner's calls, for either value of coverage.
InitStageArgs ==
  /\ InitTask
  /\ coverage \in BOOLEAN
  /\ InitPrepare({CfgUsual})
  /\ InitSources({<<>>}, {<<>>}, {Plain})
  /\ InitLint({<<>>})

NextStageArgs == \E k \in Stages : StageCall(k)

SpecStageArgs == InitStageArgs /\ [][NextStageArgs]_vars

\* -------------------------------------------------------------------- claims
\* C1. Pipeline fail-fast: in a run of pluginBuildRunner, once stage k has
\* ended in Failure no later stage has been invoked, and the run's result is
\* the very Failure stage k raised.
C1_FailFast ==
  \A k \in Stages :
    (entry = "pluginBuildRunner" /\ outcome[k].tag = "Failure") =>
      /\ \A j \in Stages : j > k => invoked[j] = 0
      /\ result = outcome[k]

\* A run in which the Format check failed after Clean and Bootstrap passed.
C1_Witness ==
  /\ entry = "pluginBuildRunner"
  /\ outcome[FormatCheck].tag = "Failure"
  /\ invoked[Bootstrap] = 1
  /\ invoked[LintCheck] = 0
  /\ result = outcome[FormatCheck]

\* C2. Stage ordering: the stages are invoked in the order Clean, Bootstrap,
\* FormatCheck(fix=false), LintCheck(fix=false), Test(watch=false),
\* Bundle(watch=false, production=true); a stage is invoked only when every
\* earlier stage has settled with Success, at most one stage is in progress,
\* and no stage is invoked twice.
C2_StageOrdering ==
  entry = "pluginBuildRunner" =>
    /\ \A k \in Stages : invoked[k] <= 1
    /\ \A k \in Stages : invoked[k] > 0 =>
         \A j \in Stages : j < k => outcome[j].tag = "Success"
    /\ Cardinality({k \in Stages : outcome[k].tag = "pending"}) <= 1
    /\ invoked[FormatCheck] > 0 => stageArgs[FormatCheck] = [fix |-> FALSE]
    /\ invoked[LintCheck] > 0 => stageArgs[LintCheck] = [fix |-> FALSE]
    /\ invoked[Test] > 0 => stageArgs[Test].watch = FALSE
    /\ invoked[Bundle] > 0 =>
         stageArgs[Bundle] = [watch |-> FALSE, production |-> TRUE]

\* A run that got as far as invoking the Lint check.
C2_Witness ==
  /\ entry = "pluginBuildRunner"
  /\ invoked[LintCheck] = 1
  /\ outcome[FormatCheck].tag = "Success"

\* C3. Without fix, a file is recorded with success = true exactly when its
\* content conforms to the format configuration.
C3_Claim ==
  \A i \in DOMAIN item :
    (~stageArgs[FormatCheck].fix /\ item[i].st = "done") =>
      (item[i].success <=> check(srcFiles[paths[i]]))

\* C4. Without fix, the Format stage leaves every file's content as it was,
\* whatever the order the per-file items complete in and however it ends.
C4_ReadOnly ==
  (invoked[FormatCheck] > 0 /\ ~stageArgs[FormatCheck].fix) => srcFiles = srcInit

\* The stage has failed without fix over a file that does not conform.
C4_Witness ==
  /\ invoked[FormatCheck] > 0
  /\ ~stageArgs[FormatCheck].fix
  /\ outcome[FormatCheck].tag = "Failure"
  /\ \E i \in DOMAIN item : item[i].st = "done" /\ ~check(srcFiles[paths[i]])

\* C5. With fix, a non-conforming file is overwritten with the fixer's output
\* and recorded as success only if that output exists and is longer than the
\* threshold of 10; if it is missing or at most 10 long, no write is started,
\* the file keeps its content, it is recorded as a failure and the stage fails.
C5_SanityThreshold ==
  \A i \in DOMAIN item :
    LET f == paths[i]
    IN  (stageArgs[FormatCheck].fix /\ ~check(srcInit[f])) =>
          /\ (srcFiles[f] # srcInit[f] \/ item[i].st = "writing" \/ item[i].success) =>
               (fixOut[f].len > 0 /\ fixOut[f].len > 10)
          /\ item[i].success => srcFiles[f] = fixOut[f]
          /\ fixOut[f].len <= 10 =>
               /\ srcFiles[f] = srcInit[f]
               /\ item[i].st = "done" => ~item[i].success
               /\ Settled(outcome[FormatCheck]) => outcome[FormatCheck].tag = "Failure"

\* One file was fixed with an 11 character answer, another had an answer of
\* exactly 10 characters and was left alone; the stage failed.
C5_Witness ==
  /\ stageArgs[FormatCheck] = [fix |-> TRUE]
  /\ outcome[FormatCheck] = Failure(Err("Prettier failed", 0))
  /\ \E i, j \in DOMAIN item :
       /\ ~check(srcInit[paths[i]]) /\ fixOut[paths[i]].len = 11
       /\ item[i].success /\ srcFiles[paths[i]] = fixOut[paths[i]]
       /\ ~check(srcInit[paths[j]]) /\ fixOut[paths[j]].len = 10
       /\ item[j].st = "done" /\ ~item[j].success
       /\ srcFiles[paths[j]] = srcInit[paths[j]]

\* C6. Bootstrap never clobbers: whatever the destination held at first,
\* after a second copyIfNonExistent in a row it holds what it held after the
\* first, and a destination that exists is never overwritten by any call.
C6_NeverClobbers ==
  \A i \in 1..2 :
    /\ \A n \in 2..Len(destAfter[i]) : destAfter[i][n] = destAfter[i][n - 1]
    /\ cfgInit[PrepareCopies[i].dest] # "Absent" =>
         cfgFiles[PrepareCopies[i].dest] = cfgInit[PrepareCopies[i].dest]

\* Two calls have settled on a destination that was there, edited, while the
\* source was there too; and two calls on a destination the first one created.
C6_Witness ==
  \E i, j \in 1..2 :
    /\ Len(destAfter[i]) = 2
    /\ cfgInit[PrepareCopies[i].dest] = "edited"
    /\ cfgInit[PrepareCopies[i].src] = "project"
    /\ copyOp[i] = [st |-> "resolved", err |-> "EEXIST"]
    /\ Len(destAfter[j]) = 2
    /\ cfgInit[PrepareCopies[j].dest] = "Absent"
    /\ destAfter[j][1] = "project"

\* The two copies as the specification describes them.
ClaimedCopies ==
  << [template |-> CfgTsconfig,   project |-> CwdTsconfig],
     [template |-> CfgPrettierrc, project |-> CwdPrettierrc] >>

\* C7. Bootstrap direction and footprint: prepare copies the bundled
\* templates into the project root, so that a project file that was absent
\* holds its template's content once its copy has settled, when the template
\* is there; it changes no file but the two project-root files, and leaves
\* the bundled templates as they were.
C7_Claim ==
  /\ \A p \in BundledFiles : cfgFiles[p] = cfgInit[p]
  /\ \A p \in CfgPaths : cfgFiles[p] # cfgInit[p] => p \in ProjectRootFiles
  /\ \A i \in 1..2 :
       ( /\ copyOp[i].st \in {"resolved", "rejected"}
         /\ cfgInit[ClaimedCopies[i].template] # "Absent" ) =>
       cfgFiles[ClaimedCopies[i].project] = cfgInit[ClaimedCopies[i].template]
       \/ cfgInit[ClaimedCopies[i].project] # "Absent"

\* A copy that ends with "destination exists" settles as success, one that
\* ends with any other error fails.
OpsAsClaimed ==
  \A i \in 1..2 :
    /\ copyOp[i].err \in {"none", "EEXIST"} /\ copyOp[i].st # "inflight"
         => copyOp[i].st \in {"idle", "resolved"}
    /\ copyOp[i].err \notin {"none", "EEXIST"} => copyOp[i].st = "rejected"

\* C8 as stated: a copy that ends with "destination exists" settles as
\* success and one that ends with any other error fails; the Bootstrap stage
\* is settled only when both operations are; and it has succeeded exactly
\* when both have.
C8_Original ==
  /\ OpsAsClaimed
  /\ Settled(outcome[Bootstrap]) =>
       /\ \A i \in 1..2 : copyOp[i].st \in {"resolved", "rejected"}
       /\ outcome[Bootstrap].tag = "Success" <=> \A i \in 1..2 : copyOp[i].st = "resolved"

\* C8, amended: the stage has succeeded only when both operations have
\* settled as success or no-op; it has failed as soon as one of them failed,
\* with that operation's error, whether or not the other has settled; once
\* both have settled it has succeeded exactly when both have.
C8_BootstrapSettles ==
  /\ OpsAsClaimed
  /\ outcome[Bootstrap].tag = "Success" => \A i \in 1..2 : copyOp[i].st = "resolved"
  /\ (\E i \in 1..2 : copyOp[i].st = "rejected") <=> outcome[Bootstrap].tag = "Failure"
  /\ outcome[Bootstrap].tag = "Failure" =>
       \E i \in 1..2 : /\ copyOp[i].st = "rejected"
                       /\ outcome[Bootstrap].err = Err(copyOp[i].err, i)
  /\ (\A i \in 1..2 : copyOp[i].st \in {"resolved", "rejected"}) =>
       /\ Settled(outcome[Bootstrap])
       /\ outcome[Bootstrap].tag = "Success" <=> \A i \in 1..2 : copyOp[i].st = "resolved"

\* The stage has failed on one copy while the other is still in flight.
C8_Witness ==
  /\ outcome[Bootstrap].tag = "Failure"
  /\ \E i, j \in 1..2 : copyOp[i].st = "rejected" /\ copyOp[j].st = "inflight"

\* The files whose per-file result is success = false.
FailedPaths == { paths[i] : i \in { j \in DOMAIN item : item[j].st = "done" /\ ~item[j].success } }

\* Every discovered file has a per-file result.
AllResults ==
  fmtPhase = "dispatched" /\ \A i \in DOMAIN item : item[i].st = "done"

\* C9 as stated, for a stage that got to check its files: it has ended in
\* Failure exactly when some per-file result has success = false; it then
\* raised the one aggregate failure and listed exactly the files whose
\* result is success = false; otherwise it succeeded.

C9_Original ==
  (fmtPhase = "dispatched" /\ Settled(outcome[FormatCheck])) =>
    /\ outcome[FormatCheck].tag = "Failure" <=> FailedPaths # {}
    /\ outcome[FormatCheck].tag = "Failure" =>
         /\ outcome[FormatCheck].err = Err("Prettier failed", 0)
         /\ Range(printed) = FailedPaths

\* C9, amended: when the configuration and every discovered file have been
\* read, so that every file has a result, the stage has ended, in Failure
\* exactly when some result has success = false, with the one aggregate
\* failure and a list of exactly the failing files, each once; the stage
\* succeeds in no other way; and a stage that failed before every file had
\* a result failed with the error of the read, and listed nothing.
C9_Aggregation ==
  /\ AllResults =>
       /\ Settled(outcome[FormatCheck])
       /\ outcome[FormatCheck].tag = "Failure" <=> FailedPaths # {}
       /\ outcome[FormatCheck].tag = "Failure" =>
            /\ outcome[FormatCheck].err = Err("Prettier failed", 0)
            /\ Range(printed) = FailedPaths
            /\ Len(printed) = Cardinality(FailedPaths)
       /\ outcome[FormatCheck].tag = "Success" => printed = <<>>
  /\ outcome[FormatCheck].tag = "Success" => AllResults
  /\ (outcome[FormatCheck].tag = "Failure" /\ outcome[FormatCheck].err.msg # "Prettier failed") =>
       /\ outcome[FormatCheck].err.msg \in {"ENOENT", "EACCES"}
       /\ printed = <<>>
       /\ \/ fmtPhase = "failed"
          \/ \E i \in DOMAIN item : item[i].st = "rejected" /\ item[i].err = outcome[FormatCheck].err

\* With fix, one file was fixed and another was not: the stage failed and
\* listed only the second.
C9_Witness ==
  /\ AllResults
  /\ outcome[FormatCheck] = Failure(Err("Prettier failed", 0))
  /\ Len(printed) = 1
  /\ \E i \in DOMAIN item : item[i].success

\* Where discovery listed file f.
PositionOf(f) == CHOOSE n \in DOMAIN tsSources : tsSources[n] = f

Flagged ==
  { f \in Range(tsSources) :
      \E i \in DOMAIN linterOut[f] : linterOut[f][i] \in {"error", "warning"} }

\* The number of rule failures in the files of S.
RECURSIVE RuleFailureTotal(_)
RuleFailureTotal(S) ==
  IF S = {} THEN 0
  ELSE LET f == CHOOSE x \in S : TRUE
       IN  Len(linterOut[f]) + RuleFailureTotal(S \ {f})

\* C11. Lint aggregation and counts: the Lint stage has failed exactly when
\* some linted file has an error or a warning, warnings alone being enough;
\* its failure then carries the total number of rule failures of those files
\* and the number of those files; with no such file the stage has succeeded.
C11_Claim ==
  (entry = "lintPlugin" /\ Settled(outcome[LintCheck])) =>
    /\ outcome[LintCheck].tag = "Failure" <=> Flagged # {}
    /\ outcome[LintCheck].tag = "Failure" =>
         /\ outcome[LintCheck].err = Err("linting errors found", 0)
         /\ lintReport.count = RuleFailureTotal(Flagged)
         /\ lintReport.files = Cardinality(Flagged)

\* C12. Empty source tree: in a run of pluginBuildRunner where discovery
\* returns no file, the configuration is there and Clean and Bootstrap have
\* succeeded, the Format check, once settled, has succeeded, the Lint check
\* has succeeded after it, Test has been invoked, and Bundle after Test.
C12_Claim ==
  ( /\ entry = "pluginBuildRunner"
    /\ paths = <<>>
    /\ cfgInit[CfgPrettierConfig] # "Absent"
    /\ outcome[Clean].tag = "Success"
    /\ outcome[Bootstrap].tag = "Success"
    /\ Settled(outcome[FormatCheck]) ) =>
    /\ outcome[FormatCheck].tag = "Success"
    /\ outcome[LintCheck].tag = "Success"
    /\ invoked[Test] = 1
    /\ outcome[Test].tag = "Success" => invoked[Bundle] = 1

\* A per-file item of the Format check is still in flight.
InFlightItem == \E i \in DOMAIN item : item[i].st \in {"reading", "writing"}

\* C13 as stated: the Format check has an outcome only when every per-file
\* item it dispatched has settled, reads and writes alike.
C13_Original ==
  Settled(outcome[FormatCheck]) => ~InFlightItem

\* C13, amended: the Format check has succeeded, or has raised its aggregate
\* failure, only when every per-file item has settled with a result; while
\* an item is still in flight the only outcome it can have is the error of
\* an item that rejected, which the stage takes over at once.
C13_WaitForAll ==
  /\ ( \/ outcome[FormatCheck].tag = "Success"
       \/ outcome[FormatCheck] = Failure(Err("Prettier failed", 0)) ) => AllResults
  /\ (Settled(outcome[FormatCheck]) /\ InFlightItem) =>
       \E i \in DOMAIN item :
         item[i].st = "rejected" /\ outcome[FormatCheck] = Failure(item[i].err)

\* With fix, the stage has failed on a file that cannot be read while the
\* write of another file's fix is still in flight.
C13_Witness ==
  /\ stageArgs[FormatCheck] = [fix |-> TRUE]
  /\ outcome[FormatCheck].tag = "Failure"
  /\ \E i, j \in DOMAIN item : item[i].st = "rejected" /\ item[j].st = "writing"

\* The per-file results the Format check holds for file f.
FormatResultsOf(f) == { i \in DOMAIN item : item[i].st = "done" /\ item[i].path = f }

\* The per-file results the Lint check obtained for file f.
LintResultsOf(f) == { a \in DOMAIN lintReport.linted : lintReport.linted[a] = f }

\* C14. Exactly-once processing: every file discovery returned for the
\* Format check has, once its per-file items have settled, exactly one
\* per-file result, under its own path, and never more than one; every
\* source-code file discovery returned for the Lint check has exactly one
\* result once that check has settled; no result belongs to another file.
C14_Claim ==
  /\ fmtPhase = "dispatched" =>
       /\ \A f \in Range(paths) :
            /\ Cardinality(FormatResultsOf(f)) <= 1
            /\ ~InFlightItem => Cardinality(FormatResultsOf(f)) = 1
       /\ \A i \in DOMAIN item : item[i].st = "done" => item[i].path = paths[i]
  /\ (entry = "lintPlugin" /\ Settled(outcome[LintCheck])) =>
       /\ \A f \in Range(tsSources) : Cardinality(LintResultsOf(f)) = 1
       /\ Len(lintReport.linted) = Len(tsSources)

\* C15. Coverage reaches the Test stage only: the options Clean, Bootstrap,
\* FormatCheck, LintCheck and Bundle are invoked with are fixed values, the
\* same whatever the run's coverage is, so that two runs differing only in
\* coverage invoke them alike; Test is invoked with the run's coverage,
\* unchanged, and with nothing else that varies.
C15_CoverageToTestOnly ==
  /\ invoked[Clean] > 0 => stageArgs[Clean] = NoArgs
  /\ invoked[Bootstrap] > 0 => stageArgs[Bootstrap] = NoArgs
  /\ invoked[FormatCheck] > 0 => stageArgs[FormatCheck] = [fix |-> FALSE]
  /\ invoked[LintCheck] > 0 => stageArgs[LintCheck] = [fix |-> FALSE]
  /\ invoked[Bundle] > 0 => stageArgs[Bundle] = [watch |-> FALSE, production |-> TRUE]
  /\ invoked[Test] > 0 =>
       stageArgs[Test] = [updateSnapshot |-> FALSE, coverage |-> coverage, watch |-> FALSE]

\* With coverage on, Test was called with coverage on, and Bundle and the
\* Format check were called too.
C15_Witness ==
  /\ coverage
  /\ invoked[Test] = 1
  /\ stageArgs[Test].coverage
  /\ invoked[Bundle] = 1
  /\ invoked[FormatCheck] = 1

\* The failures that concern one file: it does not conform and no fix was
\* asked for; no valid fix; an error while writing the fix.
NonConformance(f) == ~stageArgs[FormatCheck].fix /\ ~check(srcInit[f])
NoValidFix(f) == stageArgs[FormatCheck].fix /\ ~check(srcInit[f]) /\ fixOut[f].len <= 10
WriteError(f) ==
  /\ stageArgs[FormatCheck].fix /\ ~check(srcInit[f])
  /\ fixOut[f].len > 10 /\ ioFault[f].write # "ok"
Fixable(f) ==
  /\ stageArgs[FormatCheck].fix /\ ~check(srcInit[f])
  /\ fixOut[f].len > 10 /\ ioFault[f].write = "ok"

\* C16. Per-item failures are collected, not thrown: a readable file that
\* does not conform, has no valid fix, or whose fix could not be written is
\* recorded with success = false and never makes its item reject; a file
\* whose fix is written is recorded with success = true whatever happened
\* to the others; the stage raises its aggregate failure only when every
\* file has a result, and then every file with a result has been processed
\* and every failing one is listed; any earlier failure of the stage is the
\* error of a read, not of a per-file check.
C16_Collected ==
  /\ \A i \in DOMAIN item :
       LET f == paths[i]
       IN  /\ (ioFault[f].read = "none"
                /\ (NonConformance(f) \/ NoValidFix(f) \/ WriteError(f))) =>
                /\ item[i].st # "rejected"
                /\ item[i].st = "done" => ~item[i].success
                /\ outcome[FormatCheck] = Failure(Err("Prettier failed", 0)) =>
                     \E n \in DOMAIN printed : printed[n] = f
           /\ (Fixable(f) /\ item[i].st = "done") =>
                item[i].success /\ srcFiles[f] = fixOut[f]
  /\ outcome[FormatCheck] = Failure(Err("Prettier failed", 0)) => AllResults
  /\ (fmtPhase = "dispatched" /\ outcome[FormatCheck].tag = "Failure"
        /\ outcome[FormatCheck].err.msg # "Prettier failed") =>
       \E i \in DOMAIN item :
         /\ item[i].st = "rejected"
         /\ ioFault[paths[i]].read # "none"
         /\ outcome[FormatCheck].err = Err(ioFault[paths[i]].read, paths[i])

\* With fix, the write of one file's fix has failed and the file is recorded
\* as a failure, while the write of another file's fix is still in flight
\* and the stage has no outcome yet.
C16_Witness ==
  /\ outcome[FormatCheck].tag = "pending"
  /\ \E i, j \in DOMAIN item :
       /\ WriteError(paths[i]) /\ item[i].st = "done" /\ ~item[i].success
       /\ item[j].st = "writing"

\* C17. Pipeline progress: in a run of pluginBuildRunner where the
\* configuration is there, every discovered file can be read, conforms and
\* has no lint error or warning, and none of Clean, Bootstrap, Test and
\* Bundle has failed, the run has not failed, no stage was invoked twice,
\* and a run that has ended has invoked all six stages.
C17_Claim ==
  ( /\ entry = "pluginBuildRunner"
    /\ cfgInit[CfgPrettierConfig] # "Absent"
    /\ \A f \in Range(paths) : check(srcInit[f]) /\ ioFault[f].read = "none"
    /\ \A f \in Range(tsSources) : linterOut[f] = <<>>
    /\ \A k \in {Clean, Bootstrap, Test, Bundle} : outcome[k].tag # "Failure" ) =>
    /\ result.tag # "Failure"
    /\ \A k \in Stages : invoked[k] <= 1
    /\ Settled(result) => \A k \in Stages : invoked[k] = 1

\* C18. Fix mode on files that already conform: with fix, a file whose
\* content conforms is never written and never recorded as a failure, and a
\* stage whose discovered files all conform, once settled, has succeeded.
C18_Claim ==
  (invoked[FormatCheck] > 0 /\ stageArgs[FormatCheck].fix) =>
    /\ \A i \in DOMAIN item :
         check(srcInit[paths[i]]) =>
           /\ item[i].st # "writing"
           /\ srcFiles[paths[i]] = srcInit[paths[i]]
           /\ item[i].st = "done" => item[i].success
    /\ ( /\ fmtPhase = "dispatched"
         /\ \A f \in Range(paths) : check(srcInit[f])
         /\ Settled(outcome[FormatCheck]) ) => outcome[FormatCheck].tag = "Success"

\* What the discovered files, their contents and the collaborators' answers
\* determine, whatever the order of completion: the files that cannot be
\* read, the content each file ends with, and the files without a written fix.
Unreadable == { f \in Range(paths) : ioFault[f].read # "none" }

FinalContent(f) ==
  IF /\ f \in Range(paths) \ Unreadable
     /\ stageArgs[FormatCheck].fix /\ ~check(srcInit[f]) /\ fixOut[f].len > 10
  THEN CASE ioFault[f].write = "ok" -> fixOut[f]
         [] ioFault[f].write = "ENOSPC" -> Truncated
         [] OTHER -> srcInit[f]
  ELSE srcInit[f]

NotFixed(f) == ~Fixable(f)

ToldFailing == SelectSeq(paths, NotFixed)

FirstUnreadable == paths[CHOOSE n \in DOMAIN paths :
                           /\ paths[n] \in Unreadable
                           /\ \A m \in 1..(n - 1) : paths[m] \notin Unreadable]

ReadError(f) == Failure(Err(ioFault[f].read, f))

\* Every per-file item has settled: nothing more will happen.
AllSettled ==
  fmtPhase = "dispatched" /\ \A i \in DOMAIN item : item[i].st \in {"done", "rejected"}

\* What the stage leaves on disk and prints, at any time and at the end.
SameContentAndReport ==
  /\ \A i \in DOMAIN item :
       /\ srcFiles[paths[i]] \in {srcInit[paths[i]], FinalContent(paths[i])}
       /\ item[i].st \in {"done", "rejected"} => srcFiles[paths[i]] = FinalContent(paths[i])
  /\ AllSettled =>
       /\ outcome[FormatCheck].tag =
            (IF Unreadable = {} /\ ToldFailing = <<>> THEN "Success" ELSE "Failure")
       /\ printed = (IF Unreadable = {} THEN ToldFailing ELSE <<>>)
       /\ Unreadable = {} =>
            outcome[FormatCheck] =
              (IF ToldFailing = <<>> THEN Success ELSE Failure(Err("Prettier failed", 0)))

\* C19 as stated: once every per-file item has settled, the outcome of the
\* Format check, error included, the content of every file and the list of
\* failing paths, in discovery order, are what the files, their contents
\* and the collaborators' answers determine; for a stage that failed on a
\* read, the error of the first file in discovery order that cannot be read.
C19_Original ==
  /\ SameContentAndReport
  /\ (AllSettled /\ Unreadable # {}) => outcome[FormatCheck] = ReadError(FirstUnreadable)

\* C19, amended: the content of every file, the list of failing paths, in
\* discovery order, and whether the stage succeeds or fails are the same
\* for every completion order, and so is the error of a failed stage when
\* at most one file cannot be read; with more than one, the stage fails
\* with the read error of one of them, whichever read ended first.
C19_OrderIndependence ==
  /\ SameContentAndReport
  /\ (AllSettled /\ Unreadable # {}) =>
       /\ \E f \in Unreadable : outcome[FormatCheck] = ReadError(f)
       /\ Cardinality(Unreadable) = 1 => outcome[FormatCheck] = ReadError(FirstUnreadable)

\* With fix, the second discovered file was fixed and the first one's write
\* failed: both are settled, the first is listed and the stage has failed.
C19_Witness ==
  /\ AllSettled
  /\ Len(paths) = 2
  /\ Fixable(paths[2]) /\ srcFiles[paths[2]] = fixOut[paths[2]]
  /\ WriteError(paths[1]) /\ ioFault[paths[1]].write = "ENOSPC"
  /\ srcFiles[paths[1]] = Truncated
  /\ printed = <<paths[1]>>
  /\ outcome[FormatCheck] = Failure(Err("Prettier failed", 0))

====
